---- MODULE Spec2Model ----
(***************************************************************************)
(* Batching worker pool of pkg/worker (worker.go).                         *)
(*                                                                         *)
(* One caller goroutine issues Start, Send and Stop one after another.     *)
(* Every Start spawns a start goroutine (go w.start(ctx)); a start         *)
(* goroutine that wins the sync.Once spawns workerCount worker goroutines. *)
(* The caller, the start goroutines and the workers interleave at every    *)
(* access to shared state: the fields cancel and once, the WaitGroup, the  *)
(* Once objects, the contexts and the input channel.  The fields cancel    *)
(* and once are read and written without synchronisation; a racing read    *)
(* yields the old or the new value, which the interleaving covers.         *)
(*                                                                         *)
(* Items are numbered 1, 2, 3, ... in the order of the Send calls; 0 is    *)
(* the zero value of an unused array cell.  The input channel is buffered  *)
(* (inputBufferSize >= 1).  The channel is never closed: the type has no   *)
(* operation that closes it, so the !ok branch of work is not reachable.   *)
(*                                                                         *)
(* The module also holds utils.Batch (collections.go), bimap.Bimap         *)
(* (bimap.go) and the transactor's WithTxOpts, each with a variable and a  *)
(* specification of its own.                                               *)
(***************************************************************************)
EXTENDS Integers, Sequences, FiniteSets, TLC

\* Bounds of the exploration.
MaxWorkerCount == 2
MaxBatchSize == 2
MaxQueueCap == 1
MaxItems == 2
MaxStarts == 2
MaxStops == 1
\* The full-batch scenario: one worker, batches of FullBatchSize, FullItems sent.
FullBatchSize == 3
FullItems == 5
\* utils.Batch: arrays of up to MaxArrLen elements out of 1..MaxElem; int is
\* modelled with IntBits bits (two's complement).
MaxArrLen == 4
MaxElem == 2
IntBits == 5
\* bimap.Bimap: keys 1..MaxKeys, values 1..MaxVals, MaxPuts calls of Put.
MaxKeys == 3
MaxVals == 3
MaxPuts == 3
\* transactor: WithTxOpts calls nested MaxDepth deep, MaxTxCalls calls in all.
MaxDepth == 3
MaxTxCalls == 4

VARIABLES
    workerCount,  \* WorkerPool.workerCount
    batchSize,    \* WorkerPool.batchSize
    queueCap,     \* cap(WorkerPool.input), the inputBufferSize of New
    input,        \* WorkerPool.input: the buffered channel, oldest item first
    cancel,       \* WorkerPool.cancel: 0 is nil, i is the CancelFunc of context i
    once,         \* WorkerPool.once: the Once object the field points to
    onceState,    \* the Once objects: "fresh", "running" (inside Do) or "done"
    wg,           \* WorkerPool.wg: the WaitGroup counter
    done,         \* the contexts that have been cancelled
    sg,           \* the start goroutines, one per Start call
    worker,       \* the worker goroutines
    callerPc,     \* where the caller is: "idle", "send", "stop_wait", "stop_reset"
    sentEpoch,    \* history: sentEpoch[k] = number of Stops returned when Send(k) returned
    calls,        \* history: the calls of process, in order
    emptyFlush,   \* history: some flush found its batch empty
    settled,      \* history: settled[e + 1] says whether the Stop that ended epoch e
                  \* was called on a running pool whose Starts had all finished
    received,     \* history: received[w] = the items worker w took from input, in order
    batchCall,    \* a call of utils.Batch: its arguments, its position, i and result
    bimap,        \* a bimap.Bimap: its maps fwd and inv, and the Puts made on it
    txn           \* a transactor: the running WithTxOpts calls, the pgx.Tx and
                  \* the log of the Commit and Rollback calls made on it

cfg == <<workerCount, batchSize, queueCap>>
\* The objects of the other packages.
lib == <<batchCall, bimap, txn>>
hist == <<sentEpoch, calls, emptyFlush, settled, received>>
vars == <<workerCount, batchSize, queueCap, input, cancel, once, onceState, wg, done,
          sg, worker, callerPc, sentEpoch, calls, emptyFlush, settled, received,
          batchCall, bimap, txn>>

StartIds == 1..MaxStarts
OnceIds == 0..(MaxStops + 1)
WorkerIds == 1..(MaxStarts * MaxWorkerCount)
Background == 0
\* The context the caller passes to Start; context i is its child.
Parent == -1

NoStart == [pc |-> "none", once |-> 0, epoch |-> 0, spawned |-> 0, launched |-> FALSE]
NoWorker == [pc |-> "none", ctx |-> 0, arr |-> <<>>, len |-> 0, after |-> "loop", epoch |-> 0]

\* No call of utils.Batch is made.
NoBatchCall == [pc |-> "none", arr |-> <<>>, batchSize |-> 0, i |-> 0, result |-> <<>>,
                panic |-> ""]

\* bimap.New: both maps are empty.  puts counts the calls of Put and last is
\* the latest one.
NewBimap == [fwd |-> <<>>, inv |-> <<>>, puts |-> 0, last |-> <<>>]
\* No call of WithTxOpts is made.
NoTxn == [pc |-> "none", variant |-> "impl", stack |-> <<>>, calls |-> 0, begun |-> 0,
          state |-> "none", log |-> <<>>]
\* No object of the other packages is in use.
NoLib == batchCall = NoBatchCall /\ bimap = NewBimap /\ txn = NoTxn

\* make([]T, 0, n): n cells holding the zero value.
MakeArr(n) == [i \in 1..n |-> 0]

\* New: the pool after construction.
New(qc, wc, bs) ==
    /\ queueCap = qc
    /\ workerCount = wc
    /\ batchSize = bs
    /\ input = <<>>
    /\ cancel = 0
    /\ once = 0
    /\ onceState = [o \in OnceIds |-> "fresh"]
    /\ wg = 0
    /\ done = {}
    /\ sg = [i \in StartIds |-> NoStart]
    /\ worker = [w \in WorkerIds |-> NoWorker]
    /\ callerPc = "idle"
    /\ sentEpoch = <<>>
    /\ calls = <<>>
    /\ emptyFlush = FALSE
    /\ settled = <<>>
    /\ received = [w \in WorkerIds |-> <<>>]

Init ==
    /\ \E qc \in 1..MaxQueueCap, wc \in 1..MaxWorkerCount, bs \in 1..MaxBatchSize :
          New(qc, wc, bs)
    /\ NoLib

\* New validates nothing: a pool with workerCount = 0 or batchSize = 0 is
\* constructed like any other.
InitAny ==
    /\ \E qc \in 1..MaxQueueCap, wc \in 0..MaxWorkerCount, bs \in 0..MaxBatchSize :
          New(qc, wc, bs)
    /\ NoLib

InitFull ==
    /\ \E qc \in 1..MaxQueueCap : New(qc, 1, FullBatchSize)
    /\ NoLib

\* The faulty variant of CtxDone in which a child does not follow its parent.
CtxDoneOwn(c) == c \in done
\* ctx.Done() is ready: the context was cancelled, or it is a child of the
\* cancelled parent.
CtxDone(c) == c \in done \/ (c # Background /\ Parent \in done)

NumStarts == Cardinality({i \in StartIds : sg[i].pc # "none"})
NumSent == Len(sentEpoch)
Alive(w) == worker[w].pc \in {"select", "process"}
\* Every Start called so far has finished and worker loops are running.
Running ==
    /\ \A i \in StartIds : sg[i].pc \in {"none", "end"}
    /\ \E w \in WorkerIds : Alive(w)

(***************************************************************************)
(* The slice batch of work: a backing array arr and a length len.          *)
(***************************************************************************)
\* append's new capacity when the array is full.
NewCap(c) == IF c = 0 THEN 1 ELSE 2 * c

\* Faulty variants of append: AppendItemFront inserts the item at the front,
\* AppendItemOver overwrites the last item of a non-empty batch.
AppendItemFront(arr, len, item) ==
    [arr |-> [i \in 1..(IF len < Len(arr) THEN Len(arr) ELSE NewCap(Len(arr))) |->
                IF i = 1 THEN item ELSE IF i <= len + 1 THEN arr[i - 1] ELSE 0],
     len |-> len + 1]
AppendItemOver(arr, len, item) ==
    IF len = 0
    THEN [arr |-> [i \in 1..(IF Len(arr) = 0 THEN 1 ELSE Len(arr)) |->
                     IF i = 1 THEN item ELSE arr[i]],
          len |-> 1]
    ELSE [arr |-> [arr EXCEPT ![len] = item], len |-> len]

\* batch = append(batch, item)
AppendItem(arr, len, item) ==
    IF len < Len(arr)
    THEN [arr |-> [arr EXCEPT ![len + 1] = item], len |-> len + 1]
    ELSE [arr |-> [i \in 1..NewCap(Len(arr)) |->
                     IF i <= len THEN arr[i] ELSE IF i = len + 1 THEN item ELSE 0],
          len |-> len + 1]

\* batch = batch[:0].  TruncateKeeps is the faulty variant that forgets it.
TruncateKeeps(len) == len
Truncate(len) == 0

\* len(batch) >= w.batchSize.  IsFullLate is the faulty variant with > for >=.
IsFullLate(len, size) == len > size
IsFull(len, size) == len >= size

\* len(batch) == 0 in flush.  FlushNeverNoop is the faulty variant without the test,
\* FlushNoopBelowTwo the one that also skips a batch of a single item.
FlushNeverNoop(len) == FALSE
FlushNoopBelowTwo(len) == len <= 1
FlushIsNoop(len) == len = 0

\* What a slice handed out with length n over worker w's array reads now.
View(w, n) == SubSeq(worker[w].arr, 1, n)

(***************************************************************************)
(* flush(flushCtx) on the worker record r of worker w; after says whether  *)
(* the loop goes on ("loop") or work returns ("exit").  The call of        *)
(* process is a step of its own: it ends in ProcessReturn.                 *)
(***************************************************************************)
Flush(w, r, flushCtx, trigger, after) ==
    IF FlushIsNoop(r.len)
    THEN /\ worker' = [worker EXCEPT ![w] =
                         [r EXCEPT !.pc = IF after = "exit" THEN "exited" ELSE "select"]]
         /\ wg' = IF after = "exit" THEN wg - 1 ELSE wg
         /\ emptyFlush' = TRUE
         /\ calls' = calls
    ELSE /\ worker' = [worker EXCEPT ![w] = [r EXCEPT !.pc = "process", !.after = after]]
         /\ calls' = Append(calls, [w |-> w, ctx |-> flushCtx,
                                    live |-> ~CtxDone(flushCtx),
                                    items |-> SubSeq(r.arr, 1, r.len),
                                    trigger |-> trigger, epoch |-> once])
         /\ UNCHANGED <<wg, emptyFlush>>

(***************************************************************************)
(* The caller.                                                             *)
(***************************************************************************)
\* Start: go w.start(ctx)
Start(limit) ==
    /\ callerPc = "idle"
    /\ NumStarts < limit
    /\ sg' = [sg EXCEPT ![NumStarts + 1] =
                [pc |-> "begin", once |-> 0, epoch |-> once, spawned |-> 0,
                 launched |-> FALSE]]
    /\ UNCHANGED <<lib, cfg, input, cancel, once, onceState, wg, done, worker, callerPc, hist>>

\* Send is called: the caller stands at w.input <- item.
Send(limit) ==
    /\ callerPc = "idle"
    /\ NumSent < limit
    /\ callerPc' = "send"
    /\ UNCHANGED <<lib, cfg, input, cancel, once, onceState, wg, done, sg, worker, hist>>

\* The faulty variant of SendDone that enqueues without waiting for room.
SendDoneNoWait ==
    /\ callerPc = "send"
    /\ input' = Append(input, NumSent + 1)
    /\ sentEpoch' = Append(sentEpoch, once)
    /\ callerPc' = "idle"
    /\ UNCHANGED <<lib, cfg, cancel, once, onceState, wg, done, sg, worker, calls, emptyFlush,
                   settled, received>>

\* w.input <- item: blocked while the buffer is full; then the item is
\* enqueued and Send returns.
SendDone ==
    /\ callerPc = "send"
    /\ Len(input) < queueCap
    /\ input' = Append(input, NumSent + 1)
    /\ sentEpoch' = Append(sentEpoch, once)
    /\ callerPc' = "idle"
    /\ UNCHANGED <<lib, cfg, cancel, once, onceState, wg, done, sg, worker, calls, emptyFlush,
                   settled, received>>

\* Stop, first part: if w.cancel != nil { w.cancel() }
StopCancel(limit) ==
    /\ callerPc = "idle"
    /\ once < limit
    /\ done' = IF cancel # 0 THEN done \cup {cancel} ELSE done
    /\ callerPc' = "stop_wait"
    /\ settled' = Append(settled, Running)
    /\ UNCHANGED <<lib, cfg, input, cancel, once, onceState, wg, sg, worker,
                   sentEpoch, calls, emptyFlush, received>>

\* Stop, second part: w.wg.Wait()
StopWait ==
    /\ callerPc = "stop_wait"
    /\ wg = 0
    /\ callerPc' = "stop_reset"
    /\ UNCHANGED <<lib, cfg, input, cancel, once, onceState, wg, done, sg, worker, hist>>

\* Stop, last part: w.once = &sync.Once{}; Stop returns.
StopReset ==
    /\ callerPc = "stop_reset"
    /\ once' = once + 1
    /\ callerPc' = "idle"
    /\ UNCHANGED <<lib, cfg, input, cancel, onceState, wg, done, sg, worker, hist>>

(***************************************************************************)
(* The start goroutine of the i-th Start call.                             *)
(***************************************************************************)
\* start evaluates w.once, the receiver of Do.
StartRead(i) ==
    /\ sg[i].pc = "begin"
    /\ sg' = [sg EXCEPT ![i].pc = "do", ![i].once = once]
    /\ UNCHANGED <<lib, cfg, input, cancel, once, onceState, wg, done, worker, callerPc, hist>>

\* once.Do: the first caller runs the function, which makes the context and
\* sets w.cancel; a caller that finds the Once done returns; a caller that
\* finds it running waits.  With workerCount < 1 the loop of the function
\* has no round: Do returns at once.
StartDo(i) ==
    /\ sg[i].pc = "do"
    /\ \/ /\ onceState[sg[i].once] = "fresh"
          /\ onceState' = [onceState EXCEPT
                             ![sg[i].once] = IF workerCount >= 1 THEN "running" ELSE "done"]
          /\ cancel' = i
          /\ sg' = [sg EXCEPT ![i].pc = IF workerCount >= 1 THEN "spawn" ELSE "end",
                              ![i].launched = TRUE]
       \/ /\ onceState[sg[i].once] = "done"
          /\ sg' = [sg EXCEPT ![i].pc = "end"]
          /\ UNCHANGED <<onceState, cancel>>
    /\ UNCHANGED <<lib, cfg, input, once, wg, done, worker, callerPc, hist>>

\* The worker the start goroutine i spawns as its k-th.
WorkerId(i, k) == (i - 1) * MaxWorkerCount + k

\* One round of the loop: w.wg.Add(1); go func() { defer w.wg.Done(); w.work(ctx) }().
\* The new worker stands at its select with an empty batch of capacity batchSize.
\* After the last round Do returns and the Once is done.
StartSpawn(i) ==
    /\ sg[i].pc = "spawn"
    /\ LET k == sg[i].spawned + 1
           last == k >= workerCount
       IN /\ wg' = wg + 1
          /\ worker' = [worker EXCEPT ![WorkerId(i, k)] =
                          [pc |-> "select", ctx |-> i, arr |-> MakeArr(batchSize),
                           len |-> 0, after |-> "loop", epoch |-> sg[i].epoch]]
          /\ sg' = [sg EXCEPT ![i].spawned = k, ![i].pc = IF last THEN "end" ELSE "spawn"]
          /\ onceState' = IF last THEN [onceState EXCEPT ![sg[i].once] = "done"]
                          ELSE onceState
    /\ UNCHANGED <<lib, cfg, input, cancel, once, done, callerPc, hist>>

(***************************************************************************)
(* The worker loop.                                                        *)
(***************************************************************************)
\* case <-ticker.C: flush(ctx).  Time is not measured: the ticker may fire
\* whenever the worker stands at its select (Reset only postpones it).
WorkerTick(w) ==
    /\ worker[w].pc = "select"
    /\ Flush(w, worker[w], worker[w].ctx, "tick", "loop")
    /\ UNCHANGED <<lib, cfg, input, cancel, once, onceState, done, sg, callerPc, sentEpoch,
                   settled, received>>

\* case item := <-w.input: append, and flush(ctx) when the batch is full.
WorkerRecv(w) ==
    /\ worker[w].pc = "select"
    /\ input # <<>>
    /\ input' = Tail(input)
    /\ received' = [received EXCEPT ![w] = Append(@, Head(input))]
    /\ LET b == AppendItem(worker[w].arr, worker[w].len, Head(input))
           r == [worker[w] EXCEPT !.arr = b.arr, !.len = b.len]
       IN IF IsFull(r.len, batchSize)
          THEN Flush(w, r, worker[w].ctx, "full", "loop")
          ELSE /\ worker' = [worker EXCEPT ![w] = r]
               /\ UNCHANGED <<wg, calls, emptyFlush>>
    /\ UNCHANGED <<lib, cfg, cancel, once, onceState, done, sg, callerPc, sentEpoch, settled>>

\* The faulty variant of WorkerCancelled that flushes with the epoch context.
WorkerCancelledSameCtx(w) ==
    /\ worker[w].pc = "select"
    /\ CtxDone(worker[w].ctx)
    /\ Flush(w, worker[w], worker[w].ctx, "cancel", "exit")
    /\ UNCHANGED <<lib, cfg, input, cancel, once, onceState, done, sg, callerPc, sentEpoch,
                   settled, received>>

\* case <-ctx.Done(): flush(context.Background()); return
WorkerCancelled(w) ==
    /\ worker[w].pc = "select"
    /\ CtxDone(worker[w].ctx)
    /\ Flush(w, worker[w], Background, "cancel", "exit")
    /\ UNCHANGED <<lib, cfg, input, cancel, once, onceState, done, sg, callerPc, sentEpoch,
                   settled, received>>

\* process returns: batch = batch[:0]; then the loop goes on, or work
\* returns and the deferred wg.Done runs.
ProcessReturn(w) ==
    /\ worker[w].pc = "process"
    /\ worker' = [worker EXCEPT ![w].len = Truncate(worker[w].len),
                                ![w].pc = IF worker[w].after = "exit"
                                          THEN "exited" ELSE "select"]
    /\ wg' = IF worker[w].after = "exit" THEN wg - 1 ELSE wg
    /\ UNCHANGED <<lib, cfg, input, cancel, once, onceState, done, sg, callerPc, hist>>

StartStep(i) == StartRead(i) \/ StartDo(i) \/ StartSpawn(i)
WorkerStep(w) == WorkerTick(w) \/ WorkerRecv(w) \/ WorkerCancelled(w) \/ ProcessReturn(w)

Step(items, starts, stops) ==
    \/ Start(starts)
    \/ Send(items)
    \/ SendDone
    \/ StopCancel(stops)
    \/ StopWait
    \/ StopReset
    \/ \E i \in StartIds : StartRead(i)
    \/ \E i \in StartIds : StartDo(i)
    \/ \E i \in StartIds : StartSpawn(i)
    \/ \E w \in WorkerIds : WorkerTick(w)
    \/ \E w \in WorkerIds : WorkerRecv(w)
    \/ \E w \in WorkerIds : WorkerCancelled(w)
    \/ \E w \in WorkerIds : ProcessReturn(w)

Next == Step(MaxItems, MaxStarts, MaxStops)

Spec == Init /\ [][Next]_vars

\* A single epoch: the caller calls Start once and Stop once, in any order
\* with its Sends, on a pool of any configuration.
NextEpoch == Step(MaxItems, 1, 1)

SpecEpoch == Init /\ [][NextEpoch]_vars

\* A single epoch of a pool constructed with any arguments, workerCount = 0
\* and batchSize = 0 included.
SpecAny == InitAny /\ [][NextEpoch]_vars

\* Stop called twice: one Start and two Stops, in any order with the Sends.
NextStops == Step(MaxItems, 1, 2)

SpecStops == Init /\ [][NextStops]_vars

\* The caller's side of context.WithCancel(ctx) in start: the context given
\* to Start is cancelled.
CancelParent ==
    /\ Parent \notin done
    /\ done' = done \cup {Parent}
    /\ UNCHANGED <<lib, cfg, input, cancel, once, onceState, wg, sg, worker, callerPc,
                   hist>>

\* A pool of one or two workers.
InitParent ==
    /\ \E qc \in 1..MaxQueueCap, wc \in 1..2, bs \in 1..MaxBatchSize : New(qc, wc, bs)
    /\ NoLib

\* No Stop: the caller calls Start and Send, twice each at most, and the
\* context given to Start may be cancelled at any moment.
NextParent ==
    \/ Start(2)
    \/ Send(2)
    \/ SendDone
    \/ CancelParent
    \/ \E i \in StartIds : StartRead(i)
    \/ \E i \in StartIds : StartDo(i)
    \/ \E i \in StartIds : StartSpawn(i)
    \/ \E w \in WorkerIds : WorkerTick(w)
    \/ \E w \in WorkerIds : WorkerRecv(w)
    \/ \E w \in WorkerIds : WorkerCancelled(w)
    \/ \E w \in WorkerIds : ProcessReturn(w)

\* The goroutines are scheduled fairly and every call of process returns.
FairnessParent ==
    /\ \A i \in StartIds : WF_vars(StartStep(i))
    /\ \A w \in WorkerIds : WF_vars(WorkerStep(w))

SpecParent == InitParent /\ [][NextParent]_vars /\ FairnessParent

\* The full-batch scenario: a single epoch of a pool with one worker and
\* batchSize = FullBatchSize, to which the items 1..FullItems are sent.
NextFull == Step(FullItems, 1, 1)

SpecFull == InitFull /\ [][NextFull]_vars

\* The goroutines are scheduled fairly and every call of process returns;
\* the caller is free to stop calling, but a Stop that can go on does.
Fairness ==
    /\ WF_vars(StopWait)
    /\ WF_vars(StopReset)
    /\ WF_vars(SendDone)
    /\ \A i \in StartIds : WF_vars(StartStep(i))
    /\ \A w \in WorkerIds : WF_vars(WorkerStep(w))

FairSpec == Init /\ [][Next]_vars /\ Fairness

(***************************************************************************)
(* utils.Batch (collections.go).  A slice arr[l:r:r] is modelled by the    *)
(* values it reads.                                                        *)
(***************************************************************************)
MaxInt == 2 ^ (IntBits - 1) - 1
MinInt == -(2 ^ (IntBits - 1))
\* The int that an arithmetic result x wraps to.
Wrap(x) == ((x - MinInt) % (2 ^ IntBits)) + MinInt
\* a / b of Go for b > 0: the quotient truncated towards zero.
Quot(a, b) == IF a >= 0 THEN a \div b ELSE -((-a) \div b)
\* min(a, b)
Min(a, b) == IF a <= b THEN a ELSE b

\* All arrays of up to n elements.
Arrays(n) == UNION {[1..k -> 1..MaxElem] : k \in 0..n}

\* The capacity expression (len(arr)+batchSize-1)/batchSize.
BatchCap(len, size) == Quot(Wrap(Wrap(len + size) - 1), size)

\* r of a round: min(i+batchSize, len(arr)).
BatchRight(i, size, len) == Min(Wrap(i + size), len)

\* A call Batch(arr, batchSize) with any array and any int as batchSize;
\* the pool is not used.
InitBatch ==
    /\ New(1, 1, 1)
    /\ bimap = NewBimap
    /\ txn = NoTxn
    /\ \E a \in Arrays(MaxArrLen), bs \in MinInt..MaxInt :
          batchCall = [pc |-> "call", arr |-> a, batchSize |-> bs, i |-> 0,
                       result |-> <<>>, panic |-> ""]

\* The head of Batch: the check of batchSize, then make with the capacity
\* expression (make panics on a negative capacity), then i := 0.
BatchEnter ==
    /\ batchCall.pc = "call"
    /\ batchCall' =
          IF batchCall.batchSize <= 0
          THEN [batchCall EXCEPT !.pc = "panic", !.panic = "batch size <= 0"]
          ELSE IF BatchCap(Len(batchCall.arr), batchCall.batchSize) < 0
          THEN [batchCall EXCEPT !.pc = "panic", !.panic = "makeslice: cap out of range"]
          ELSE [batchCall EXCEPT !.pc = "loop", !.i = 0, !.result = <<>>]
    /\ UNCHANGED <<bimap, txn, cfg, input, cancel, once, onceState, wg, done, sg, worker,
                   callerPc, hist>>

\* One round of the loop: l, r := i, min(i+batchSize, len(arr));
\* result = append(result, arr[l:r:r]); i = r.  The slice expression panics
\* unless 0 <= l <= r <= cap(arr).
BatchRound ==
    /\ batchCall.pc = "loop"
    /\ batchCall.i < Len(batchCall.arr)
    /\ LET l == batchCall.i
           r == BatchRight(batchCall.i, batchCall.batchSize, Len(batchCall.arr))
       IN batchCall' =
            IF l <= r
            THEN [batchCall EXCEPT !.result = Append(@, SubSeq(batchCall.arr, l + 1, r)),
                                   !.i = r]
            ELSE [batchCall EXCEPT !.pc = "panic", !.panic = "slice bounds out of range"]
    /\ UNCHANGED <<bimap, txn, cfg, input, cancel, once, onceState, wg, done, sg, worker,
                   callerPc, hist>>

\* The loop ends: return result.
BatchReturn ==
    /\ batchCall.pc = "loop"
    /\ batchCall.i >= Len(batchCall.arr)
    /\ batchCall' = [batchCall EXCEPT !.pc = "done"]
    /\ UNCHANGED <<bimap, txn, cfg, input, cancel, once, onceState, wg, done, sg, worker,
                   callerPc, hist>>

NextBatch == BatchEnter \/ BatchRound \/ BatchReturn

SpecBatch == InitBatch /\ [][NextBatch]_vars

(***************************************************************************)
(* bimap.Bimap (bimap.go).  A Go map is a function on the set of its keys. *)
(***************************************************************************)
Keys == 1..MaxKeys
Vals == 1..MaxVals

\* m[k] = v
MapSet(m, k, v) == [x \in DOMAIN m \cup {k} |-> IF x = k THEN v ELSE m[x]]

\* Get: v, ok := b.fwd[key]; 0 is the zero value.
Get(key) == IF key \in DOMAIN bimap.fwd THEN <<bimap.fwd[key], TRUE>> ELSE <<0, FALSE>>
\* GetInverse: v, ok := b.inv[key]
GetInverse(key) == IF key \in DOMAIN bimap.inv THEN <<bimap.inv[key], TRUE>> ELSE <<0, FALSE>>

\* A Bimap made by New; the pool and Batch are not used.
InitBimap ==
    /\ New(1, 1, 1)
    /\ batchCall = NoBatchCall
    /\ bimap = NewBimap
    /\ txn = NoTxn

\* Put: b.fwd[key] = value; b.inv[value] = key
Put(key, value) ==
    /\ bimap.puts < MaxPuts
    /\ bimap' = [fwd |-> MapSet(bimap.fwd, key, value),
                 inv |-> MapSet(bimap.inv, value, key),
                 puts |-> bimap.puts + 1,
                 last |-> <<key, value>>]
    /\ UNCHANGED <<batchCall, txn, cfg, input, cancel, once, onceState, wg, done, sg, worker,
                   callerPc, hist>>

NextBimap == \E key \in Keys, value \in Vals : Put(key, value)

SpecBimap == InitBimap /\ [][NextBimap]_vars

(***************************************************************************)
(* transactor: WithTxOpts of impl and of Transactor.  The calls form a      *)
(* stack: frame d is the call made by the fn of frame d - 1 with the        *)
(* context it was given.  pgx.Tx is a state "open", "committed" or          *)
(* "rolledback"; Commit and Rollback on a transaction that is not open      *)
(* return an error and change nothing.                                      *)
(***************************************************************************)
Variants == {"impl", "Transactor"}

\* tx.Commit and tx.Rollback: the new state and whether an error is returned.
Commit(state) ==
    IF state = "open" THEN [state |-> "committed", err |-> FALSE]
    ELSE [state |-> state, err |-> TRUE]
Rollback(state) ==
    IF state = "open" THEN [state |-> "rolledback", err |-> FALSE]
    ELSE [state |-> state, err |-> TRUE]

\* ExtractTx succeeds: the context carries a transaction.  The top-level call
\* is given a context without one; the fn of a running call passes on the
\* context it was given.
CarriesTx == txn.stack # <<>>

\* The entry that a Commit or Rollback by the call at the top of the stack
\* leaves in the log.
LogEntry(op) ==
    [op |-> op, depth |-> Len(txn.stack), reused |-> txn.stack[Len(txn.stack)].reused]

\* How the call at the top of the stack ends when its fn returns fnErr: the
\* Commit and Rollback calls it makes, in order.
\*   impl:       fn failed -> deferred Rollback; else deferred Commit.
\*   Transactor: fn failed -> deferred Rollback; else Commit, and the
\*               deferred Rollback when that Commit returned an error.
Finalisers(fnErr) ==
    IF fnErr THEN <<"rollback">>
    ELSE IF txn.variant = "Transactor" /\ Commit(txn.state).err
    THEN <<"commit", "rollback">>
    ELSE <<"commit">>

RECURSIVE ApplyOps(_, _)
\* The state of the transaction after the calls ops.
ApplyOps(state, ops) ==
    IF ops = <<>> THEN state
    ELSE ApplyOps(IF Head(ops) = "commit" THEN Commit(state).state
                  ELSE Rollback(state).state, Tail(ops))

\* A transactor of either kind, nothing called yet; the pool, Batch and the
\* Bimap are not used.
InitTx ==
    /\ New(1, 1, 1)
    /\ batchCall = NoBatchCall
    /\ bimap = NewBimap
    /\ \E v \in Variants : txn = [NoTxn EXCEPT !.pc = "run", !.variant = v]

\* WithTxOpts is called, by the program or by the fn of the running call:
\* injectTx reuses the transaction of the context or begins one; beginFails
\* says that db.BeginTx returns an error, and then the call returns at once.
WithTxOpts(beginFails) ==
    /\ txn.pc = "run"
    /\ txn.calls < MaxTxCalls
    /\ Len(txn.stack) < MaxDepth
    /\ txn.stack = <<>> => txn.calls = 0
    /\ txn' =
          IF CarriesTx
          THEN [txn EXCEPT !.stack = Append(@, [reused |-> TRUE]), !.calls = @ + 1]
          ELSE IF beginFails
          THEN [txn EXCEPT !.pc = "done", !.calls = @ + 1]
          ELSE [txn EXCEPT !.stack = Append(@, [reused |-> FALSE]), !.calls = @ + 1,
                           !.begun = @ + 1, !.state = "open"]
    /\ UNCHANGED <<batchCall, bimap, cfg, input, cancel, once, onceState, wg, done, sg, worker,
                   callerPc, hist>>

\* The fn of the call at the top of the stack returns, with an error or
\* without: the call finalises as its kind does and returns.
FnReturn(fnErr) ==
    /\ txn.pc = "run"
    /\ txn.stack # <<>>
    /\ LET ops == Finalisers(fnErr)
       IN txn' = [txn EXCEPT
                    !.state = ApplyOps(@, ops),
                    !.log = @ \o [j \in 1..Len(ops) |-> LogEntry(ops[j])],
                    !.stack = SubSeq(@, 1, Len(@) - 1),
                    !.pc = IF Len(txn.stack) = 1 THEN "done" ELSE "run"]
    /\ UNCHANGED <<batchCall, bimap, cfg, input, cancel, once, onceState, wg, done, sg, worker,
                   callerPc, hist>>

NextTx ==
    \/ \E beginFails \in BOOLEAN : WithTxOpts(beginFails)
    \/ \E fnErr \in BOOLEAN : FnReturn(fnErr)

SpecTx == InitTx /\ [][NextTx]_vars

(***************************************************************************)
(* Vocabulary of the properties.                                           *)
(***************************************************************************)
\* The number of times item k was passed to process.
DeliveredCount(k) ==
    Cardinality(UNION {{<<c, j>> : j \in {j \in DOMAIN calls[c].items : calls[c].items[j] = k}} :
                       c \in DOMAIN calls})
InQueue(k) == \E j \in DOMAIN input : input[j] = k
InBatch(k) ==
    \E w \in WorkerIds :
        worker[w].pc = "select" /\ \E j \in 1..worker[w].len : worker[w].arr[j] = k
\* The caller is not inside Stop.
OutsideStop == callerPc \in {"idle", "send"}
\* Epoch e was ended by a Stop called on a running pool.
EpochRan(e) == e + 1 <= Len(settled) /\ settled[e + 1]
\* No Start has been called since the last Stop returned.
NoStartSinceStop == \A i \in StartIds : sg[i].pc = "none" \/ sg[i].epoch < once

\* C1: once Stop has returned on a pool that was running, every item sent
\* before that Stop has been passed to process exactly once and is neither
\* in the inbound queue nor in a worker's batch.
NoLoss ==
    \A k \in 1..NumSent :
        (OutsideStop /\ sentEpoch[k] < once /\ EpochRan(sentEpoch[k]))
            => (DeliveredCount(k) = 1 /\ ~InQueue(k) /\ ~InBatch(k))

\* C2: after Stop has returned and until Start is called again, no worker
\* loop is running (at its select or inside process).
StopBarrier ==
    (OutsideStop /\ once >= 1 /\ NoStartSinceStop) => \A w \in WorkerIds : ~Alive(w)

\* C3: one Start, two items sent, batchSize > 2, then Stop on the running
\* pool: when Stop has returned process was called exactly once, with the
\* batch <<1, 2>>, and that call has returned.
DrainOnStop ==
    (/\ callerPc = "idle" /\ once = 1 /\ batchSize > 2
     /\ NumStarts = 1 /\ sentEpoch = <<0, 0>> /\ EpochRan(0))
        => (/\ Len(calls) = 1
            /\ calls[1].items = <<1, 2>>
            /\ \A w \in WorkerIds : worker[w].pc # "process")

\* C4: a worker's batch never holds more than batchSize items and every
\* batch passed to process has between 1 and batchSize items.
BoundedBatches ==
    /\ \A w \in WorkerIds : worker[w].pc # "none" => worker[w].len <= batchSize
    /\ \A c \in DOMAIN calls :
          Len(calls[c].items) >= 1 /\ Len(calls[c].items) <= batchSize
\* A batch of batchSize >= 2 items was passed to process and the worker went on.
BoundedBatchesWitness ==
    \E c \in DOMAIN calls :
        /\ batchSize >= 2
        /\ Len(calls[c].items) = batchSize
        /\ worker[calls[c].w].pc = "select"

\* C5: the batch a call of process received still reads the same items
\* later on, whatever the worker appends or flushes afterwards.
BatchNotChanged ==
    \A c \in DOMAIN calls : View(calls[c].w, Len(calls[c].items)) = calls[c].items

\* C6: in the epoch begun by a Start after a Stop of the running pool, at most
\* workerCount workers run and none of them passes to process an item that
\* was sent in an earlier epoch.
Restartable ==
    /\ \A e \in 1..MaxStops :
          Cardinality({w \in WorkerIds : worker[w].pc # "none" /\ worker[w].epoch = e})
              <= workerCount
    /\ \A c \in DOMAIN calls : \A j \in DOMAIN calls[c].items :
          ~(/\ sentEpoch[calls[c].items[j]] < worker[calls[c].w].epoch
            /\ EpochRan(sentEpoch[calls[c].items[j]]))

\* C7: of the Start calls made with no Stop between them, at most one
\* launches worker loops and sets the cancellation handle.
StartOncePerEpoch ==
    \A i, j \in StartIds :
        (i # j /\ sg[i].launched /\ sg[j].launched) => sg[i].epoch # sg[j].epoch

\* C8: process is never called with a batch of zero items.
NoEmptyFlush == \A c \in DOMAIN calls : calls[c].items # <<>>
\* A flush found the batch empty and process has not been called at all.
NoEmptyFlushWitness ==
    emptyFlush /\ calls = <<>> /\ \E w \in WorkerIds : worker[w].pc = "select"

\* C9: every call of Stop returns, given fair scheduling and a process that
\* returns.
StopTerminates == (callerPc = "stop_wait") ~> (callerPc = "idle")

\* C10: a worker never waits for an event with a full batch, a flush of a
\* full batch passes exactly batchSize items, and with a single worker whose
\* first call of process is a full-batch flush that call receives the first
\* batchSize items sent, in order.
FullBatchFlush ==
    /\ \A w \in WorkerIds : worker[w].pc = "select" => worker[w].len < batchSize
    /\ \A c \in DOMAIN calls :
          calls[c].trigger = "full" => Len(calls[c].items) = batchSize
    /\ (/\ calls # <<>>
        /\ Cardinality({w \in WorkerIds : worker[w].pc # "none"}) = 1)
           => (calls[1].trigger = "full" => calls[1].items = [i \in 1..batchSize |-> i])
\* One worker, batchSize 3, all FullItems sent, the first call got <<1, 2, 3>>.
FullBatchFlushWitness ==
    /\ workerCount = 1 /\ batchSize = FullBatchSize
    /\ NumSent = FullItems
    /\ calls # <<>> /\ calls[1].trigger = "full"
    /\ calls[1].items = [i \in 1..FullBatchSize |-> i]
    /\ ~emptyFlush

\* The batch of worker w as a sequence.
BatchOf(w) == View(w, worker[w].len)
\* The step appends exactly one call of process, made by worker w with the
\* batch it holds before the step.
CallsBatch(w) ==
    /\ Len(calls') = Len(calls) + 1
    /\ SubSeq(calls', 1, Len(calls)) = calls
    /\ calls'[Len(calls')].w = w
    /\ calls'[Len(calls')].items = BatchOf(w)

\* C11: when the timer fires on a worker holding at least one and fewer than
\* batchSize items, process is called exactly once with exactly those items
\* and the batch is empty once the call has returned; when the timer fires
\* on an empty batch, process is not called and the batch stays empty.
IdleFlush ==
    [][\A w \in WorkerIds :
          /\ (WorkerTick(w) /\ worker[w].len > 0)
                => (/\ worker[w].len < batchSize
                    /\ CallsBatch(w)
                    /\ calls'[Len(calls')].trigger = "tick"
                    /\ worker'[w].pc = "process")
          /\ (WorkerTick(w) /\ worker[w].len = 0)
                => (calls' = calls /\ worker'[w].pc = "select" /\ worker'[w].len = 0)
          /\ (ProcessReturn(w) /\ worker[w].after = "loop")
                => (calls' = calls /\ worker'[w].pc = "select" /\ worker'[w].len = 0)]_vars
\* The single worker flushed <<1, 2>> on a timer fire, the call returned, the
\* batch is empty and a later fire found it empty: still one call.
IdleFlushWitness ==
    /\ workerCount = 1
    /\ Len(calls) = 1 /\ calls[1].trigger = "tick" /\ calls[1].items = <<1, 2>>
    /\ worker[calls[1].w].pc = "select" /\ worker[calls[1].w].len = 0
    /\ received[calls[1].w] = <<1, 2>>
    /\ emptyFlush

\* C12: the inbound queue never holds more than queueCap items; a Send that
\* finds the queue full cannot complete; and as long as no worker loop has
\* been launched every item sent is still in the queue, in the order sent,
\* and process has not been called.
Backpressure ==
    /\ Len(input) <= queueCap
    /\ (callerPc = "send" /\ Len(input) >= queueCap) => ~ENABLED SendDone
    /\ (\A w \in WorkerIds : worker[w].pc = "none")
          => (input = [k \in 1..NumSent |-> k] /\ calls = <<>>)
\* A pool that was never started: its queue is full and the next Send is blocked.
BackpressureWitness ==
    /\ NumStarts = 0
    /\ callerPc = "send"
    /\ Len(input) = queueCap
    /\ NumSent = queueCap

\* The items of the first n calls of process made by the workers in W, in order.
RECURSIVE FlushedUpTo(_, _)
FlushedUpTo(W, n) ==
    IF n = 0 THEN <<>>
    ELSE FlushedUpTo(W, n - 1) \o (IF calls[n].w \in W THEN calls[n].items ELSE <<>>)
Flushed(W) == FlushedUpTo(W, Len(calls))
IsPrefix(s, t) == Len(s) <= Len(t) /\ s = SubSeq(t, 1, Len(s))
Sent == [k \in 1..NumSent |-> k]

InStop == callerPc \in {"stop_wait", "stop_reset"}
\* The number of Stop calls so far, the one in progress included.
StopNo == Len(settled)
\* The last Stop was called directly after an earlier Stop returned: the
\* caller called neither Start nor Send between the two.
DirectlyAfterStop ==
    /\ StopNo >= 2
    /\ \A k \in 1..NumSent : sentEpoch[k] # StopNo - 1
    /\ \A i \in StartIds : sg[i].pc # "none" => sg[i].epoch # StopNo - 1

\* C14: while the caller is inside a Stop on a pool that was never started,
\* or inside a Stop called directly after a Stop that returned, the Stop is
\* not blocked at its wait, process is not called, the queue keeps its
\* contents, and when the Stop returns the start guard is a fresh one.
IdempotentStop ==
    /\ []((InStop /\ (NumStarts = 0 \/ DirectlyAfterStop))
            => (callerPc = "stop_wait" => ENABLED StopWait))
    /\ [][(InStop /\ (NumStarts = 0 \/ DirectlyAfterStop))
            => /\ calls' = calls
               /\ input' = input
               /\ ~InStop' => onceState'[once'] = "fresh"]_vars

\* C15: a pool constructed with workerCount < 1 or batchSize < 1 does not
\* exist as a pool that runs: it never has a worker loop and process is
\* never called on its behalf.
InvalidConfigRejected ==
    (workerCount < 1 \/ batchSize < 1)
        => (calls = <<>> /\ \A w \in WorkerIds : worker[w].pc = "none")

RECURSIVE Flatten(_)
\* The concatenation of the batches of bs, in order.
Flatten(bs) == IF bs = <<>> THEN <<>> ELSE Head(bs) \o Flatten(Tail(bs))
\* The least n with n * size >= len.
CeilDiv(len, size) == CHOOSE n \in 0..len : n * size >= len /\ (n = 0 \/ (n - 1) * size < len)

\* C16: a call of Batch with batchSize > 0 does not panic, and what it
\* returns concatenates to arr, has ceil(len(arr)/batchSize) batches, each
\* non-empty with at most batchSize elements and each but the last with
\* exactly batchSize; a call with batchSize <= 0 panics and returns nothing.
BatchPartitions ==
    /\ batchCall.pc = "panic" => batchCall.batchSize <= 0
    /\ batchCall.pc \in {"loop", "done"} => batchCall.batchSize > 0
    /\ batchCall.pc = "done" =>
          LET res == batchCall.result
              size == batchCall.batchSize
          IN /\ Flatten(res) = batchCall.arr
             /\ Len(res) = CeilDiv(Len(batchCall.arr), size)
             /\ \A j \in DOMAIN res : Len(res[j]) >= 1 /\ Len(res[j]) <= size
             /\ \A j \in 1..(Len(res) - 1) : Len(res[j]) = size

\* C17: a worker that stands at its select when its context is cancelled
\* takes no item from the queue, and the only call of process it makes from
\* there is the final flush of the cancellation branch, with a live context.
CancelObserved ==
    [][\A w \in WorkerIds :
          (worker[w].pc = "select" /\ CtxDone(worker[w].ctx))
              => /\ received'[w] = received[w]
                 /\ (Len(calls') > Len(calls) /\ calls'[Len(calls')].w = w)
                       => (/\ calls'[Len(calls')].trigger = "cancel"
                           /\ calls'[Len(calls')].live)]_vars

\* The calls of process that worker w made from its cancellation branch.
FinalCalls(w) == {c \in DOMAIN calls : calls[c].w = w /\ calls[c].trigger = "cancel"}

\* C18: a worker that takes the cancellation branch with a non-empty batch
\* calls process with exactly the items of its batch and a context that is
\* not cancelled, and exits when that call returns; with an empty batch it
\* exits without a call; it makes at most one such call and an exited worker
\* does nothing more.
FinalFlush ==
    /\ [](\A w \in WorkerIds : Cardinality(FinalCalls(w)) <= 1)
    /\ [][\A w \in WorkerIds :
            /\ (WorkerCancelled(w) /\ worker[w].len > 0)
                  => (/\ CallsBatch(w)
                      /\ calls'[Len(calls')].trigger = "cancel"
                      /\ calls'[Len(calls')].live
                      /\ calls'[Len(calls')].ctx \notin done'
                      /\ worker'[w].pc = "process" /\ worker'[w].after = "exit")
            /\ (WorkerCancelled(w) /\ worker[w].len = 0)
                  => (calls' = calls /\ worker'[w].pc = "exited" /\ wg' = wg - 1)
            /\ (ProcessReturn(w) /\ worker[w].after = "exit")
                  => (calls' = calls /\ worker'[w].pc = "exited" /\ wg' = wg - 1)
            /\ worker[w].pc = "exited" => worker'[w] = worker[w]]_vars
\* Stop has returned on a pool of two workers: one exited through a final
\* flush of its single item, with a live context, the other without a call.
FinalFlushWitness ==
    /\ workerCount = 2 /\ batchSize = 2
    /\ callerPc = "idle" /\ once = 1
    /\ \A w \in 1..2 : worker[w].pc = "exited"
    /\ Len(calls) = 1
    /\ calls[1].trigger = "cancel" /\ calls[1].items = <<1>> /\ calls[1].live
    /\ input = <<>>

\* The number of places item k is in: cells of the inbound queue, cells of
\* the batches of the workers at their select, and cells of the batches
\* passed to process.
Places(k) ==
    Cardinality({j \in DOMAIN input : input[j] = k})
    + Cardinality({wj \in WorkerIds \X (1..Len(Sent)) :
                     /\ worker[wj[1]].pc = "select"
                     /\ wj[2] <= worker[wj[1]].len
                     /\ worker[wj[1]].arr[wj[2]] = k})
    + DeliveredCount(k)

\* C19: every item accepted by Send is in exactly one place: once in the
\* inbound queue, or once in the batch of one worker, or passed to process
\* once.
Conservation == \A k \in 1..NumSent : Places(k) = 1
\* Two workers hold one of the two items each.
ConservationWitness ==
    \E v, w \in WorkerIds :
        /\ v # w
        /\ worker[v].pc = "select" /\ BatchOf(v) = <<1>>
        /\ worker[w].pc = "select" /\ BatchOf(w) = <<2>>
        /\ input = <<>> /\ calls = <<>>

\* C20: at most workerCount worker loops are alive, and whenever the caller
\* is free to call Stop every live worker loop runs on the context that
\* w.cancel cancels, or on a context already cancelled.
WorkerBound ==
    /\ Cardinality({w \in WorkerIds : Alive(w)}) <= workerCount
    /\ callerPc = "idle" =>
          \A w \in WorkerIds :
              Alive(w) => (worker[w].ctx = cancel \/ CtxDone(worker[w].ctx))

ParentCancelled == Parent \in done
\* The Start calls whose start goroutine ran the function of once.Do.
Launches == {i \in StartIds : sg[i].launched}
NoneAlive == \A w \in WorkerIds : ~Alive(w)
\* The parent context is cancelled, the one launch is over and its workers
\* have exited.
PoolDead ==
    /\ ParentCancelled
    /\ Launches # {}
    /\ \A i \in Launches : sg[i].pc = "end"
    /\ NoneAlive

\* C21: with no Stop call, once the context given to Start is cancelled the
\* worker loops all exit and none is alive from then on; a worker that has
\* exited has passed everything it received to process; at most one Start
\* launches workers; and when the workers of the cancelled launch are gone,
\* process is not called again, no Start launches workers, and the queue
\* only grows by the items sent.
ParentCancel ==
    /\ ParentCancelled ~> []NoneAlive
    /\ [](Cardinality(Launches) <= 1)
    /\ [](\A w \in WorkerIds :
            worker[w].pc = "exited"
                => (worker[w].len = 0 /\ Flushed({w}) = received[w]))
    /\ [][PoolDead => (/\ PoolDead'
                       /\ calls' = calls
                       /\ Launches' = Launches
                       /\ IsPrefix(input, input'))]_vars
\* The parent was cancelled while a worker held item 1: both workers have
\* exited, item 1 went out in a final flush, a second Start launched
\* nothing, and item 2 waits in the queue.
ParentCancelWitness ==
    /\ PoolDead /\ once = 0 /\ callerPc = "idle"
    /\ workerCount = 2 /\ NumStarts = 2 /\ Cardinality(Launches) = 1
    /\ Len(calls) = 1 /\ calls[1].trigger = "cancel" /\ calls[1].items = <<1>>
    /\ calls[1].live
    /\ input = <<2>>

\* C22: Get(k) returns (v, true) exactly when GetInverse(v) returns
\* (k, true), and after Put(k, v) both lookups succeed with v and k.
BimapConsistent ==
    /\ \A k \in Keys, v \in Vals : (Get(k) = <<v, TRUE>>) <=> (GetInverse(v) = <<k, TRUE>>)
    /\ bimap.puts > 0 =>
          (/\ Get(bimap.last[1]) = <<bimap.last[2], TRUE>>
           /\ GetInverse(bimap.last[2]) = <<bimap.last[1], TRUE>>)

\* C23: the transaction is begun at most once; Commit and Rollback are only
\* called by the outermost call, never by a call that reused the
\* transaction, and once in all; and when the outermost call has returned
\* after beginning the transaction, exactly one Commit or Rollback was made.
TxFinalisedOnce ==
    /\ txn.begun <= 1
    /\ Len(txn.log) <= 1
    /\ \A j \in DOMAIN txn.log : txn.log[j].depth = 1 /\ ~txn.log[j].reused
    /\ (txn.pc = "done" /\ txn.begun = 1) => Len(txn.log) = 1

====
